---- MODULE Spec2Model ----
(***************************************************************************)
(* azure.mgmt.core.tools: parse_resource_id, resource_id and               *)
(* is_valid_resource_id (sdk/core/azure-mgmt-core/azure/mgmt/core/tools.py) *)
(*                                                                         *)
(* Representation of Python values.                                        *)
(*   str   a non-empty sequence of segments: the pieces of the string      *)
(*         between its "/" characters, so "" is <<"">>, "a/b" is           *)
(*         <<"a","b">> and "/a" is <<"","a">>.  Every string has exactly   *)
(*         one such form, and concatenation is Cat.  A segment is an       *)
(*         atom: the patterns of the module only ever ask of a run of      *)
(*         non-"/" characters whether it is empty, whether it spells a     *)
(*         keyword, and where its first line break is.                     *)
(*   None  the empty sequence <<>> (no str is empty as a sequence).        *)
(*   int   n is <<n>>.                                                     *)
(*   dict  a function whose DOMAIN is the set of keys.                     *)
(***************************************************************************)
EXTENDS Integers, Sequences, FiniteSets, TLC

VARIABLES pc, rid, kwargs, parsed, built, reparsed, is_valid, exception_type, raised

vars == <<pc, rid, kwargs, parsed, built, reparsed, is_valid, exception_type, raised>>

(* ---------------------------------------------------------------------- *)
(* Bounds                                                                  *)
(* ---------------------------------------------------------------------- *)
\* longest run of free segments appended to an input prefix
MaxTail == 5
\* deepest child level a hand-made field mapping mentions
MaxLevel == 2

(* ---------------------------------------------------------------------- *)
(* Python values                                                           *)
(* ---------------------------------------------------------------------- *)
None == <<>>

PyInt(n) == <<n>>

EmptyStr == <<"">>

Slash == <<"", "">>

EmptyDict == [k \in {} |-> None]

\* a + b on str
Cat(a, b) == SubSeq(a, 1, Len(a) - 1) \o <<a[Len(a)] \o b[1]>> \o SubSeq(b, 2, Len(b))

\* sep.join(list)
RECURSIVE Join(_, _)
Join(sep, list) ==
    IF list = <<>> THEN EmptyStr
    ELSE IF Len(list) = 1 THEN list[1]
    ELSE Cat(list[1], Cat(sep, Join(sep, Tail(list))))

\* truth value of a str-or-None
Truthy(v) == v # None /\ v # EmptyStr

\* str(v) as str.format renders a str-or-None field
Fmt(v) == IF v = None THEN <<"None">> ELSE v

\* dict.get(k)
Get(d, k) == IF k \in DOMAIN d THEN d[k] ELSE None

\* d.update(e)
Update(d, e) == e @@ d

\* {key: value for key, value in d.items() if value is not None}
DropNone(d) == [k \in {j \in DOMAIN d : d[j] # None} |-> d[k]]

(* ---------------------------------------------------------------------- *)
(* Segment atoms                                                           *)
(* ---------------------------------------------------------------------- *)
\* str.lower() of one segment
LowerSeg(s) ==
    CASE s = "SUBSCRIPTIONS"  -> "subscriptions"
      [] s = "resourceGroups" -> "resourcegroups"
      [] s = "RESOURCEGROUPS" -> "resourcegroups"
      [] s = "PROVIDERS"      -> "providers"
      [] s = "S"              -> "s"
      [] s = "N"              -> "n"
      [] s = "C"              -> "c"
      [] s = "V"              -> "v"
      [] OTHER                -> s

\* str.lower()
Lower(x) == [i \in 1..Len(x) |-> LowerSeg(x[i])]

\* a segment holding a line break: "c", a newline, "d"
LFSeg == "c<LF>d"

\* a segment spelling "subscriptions" with U+017F (LATIN SMALL LETTER LONG S)
LongSSeg == "<017F>ub<017F>cription<017F>"

\* simple case folding of the regex engine under (?i): as lower(), and the
\* long s also matches "s"
FoldSeg(s) == IF s = LongSSeg THEN "subscriptions" ELSE LowerSeg(s)

\* the part of a segment "." can match: up to its first line break
BeforeLF(s) == IF s = LFSeg THEN "c" ELSE s

HasLF(s) == s = LFSeg

(* ---------------------------------------------------------------------- *)
(* _ARMID_RE and _CHILDREN_RE                                              *)
(* ---------------------------------------------------------------------- *)
\* (?P<children>.*) applied at segment i of x: everything up to the first
\* line break
RECURSIVE DotStar(_, _)
DotStar(x, i) ==
    IF i > Len(x) THEN <<>>
    ELSE IF HasLF(x[i]) THEN <<BeforeLF(x[i])>>
    ELSE <<x[i]>> \o DotStar(x, i + 1)

\* _ARMID_RE with (?P<subscription>[^/]*): an empty subscription id matches
_ARMID_RE_match_EmptyId(x) ==
    IF ~(Len(x) >= 3 /\ x[1] = "" /\ FoldSeg(x[2]) = "subscriptions")
    THEN None
    ELSE [subscription   |-> <<x[3]>>,
          resource_group |-> None,
          namespace      |-> None,
          type           |-> None,
          name           |-> None,
          children       |-> None]

\* _ARMID_RE.match(rid): None, or the groupdict of the match.  Every
\* [^/]+ and [^/]* is greedy and is followed by "/" or by the end of a
\* group, so it takes a whole segment.
_ARMID_RE_match(x) ==
    IF ~(Len(x) >= 3 /\ x[1] = "" /\ FoldSeg(x[2]) = "subscriptions" /\ x[3] # "")
    THEN None
    ELSE
      LET hasRG == /\ Len(x) >= 5
                   /\ FoldSeg(x[4]) = "resourcegroups"
                   /\ x[5] # ""
          p     == IF hasRG THEN 6 ELSE 4
          hasPR == /\ Len(x) >= p + 3
                   /\ FoldSeg(x[p]) = "providers"
                   /\ x[p + 1] # ""
                   /\ x[p + 3] # ""
      IN  [subscription   |-> <<x[3]>>,
           resource_group |-> IF hasRG THEN <<x[5]>> ELSE None,
           namespace      |-> IF hasPR THEN <<x[p + 1]>> ELSE None,
           type           |-> IF hasPR THEN <<x[p + 2]>> ELSE None,
           name           |-> IF hasPR THEN <<x[p + 3]>> ELSE None,
           children       |-> IF hasPR THEN <<"">> \o DotStar(x, p + 4) ELSE None]

\* _CHILDREN_RE.finditer(c), scanning from segment i: the groupdicts of the
\* non-overlapping matches, left to right.  A match starts at a "/", with
\* the optional provider group tried first.
RECURSIVE _CHILDREN_RE_finditer(_, _)
_CHILDREN_RE_finditer(c, i) ==
    IF i > Len(c) THEN <<>>
    ELSE IF /\ i + 3 <= Len(c)
            /\ FoldSeg(c[i]) = "providers"
            /\ c[i + 1] # ""
            /\ c[i + 3] # ""
    THEN <<[child_namespace |-> <<c[i + 1]>>,
            child_type      |-> <<c[i + 2]>>,
            child_name      |-> <<c[i + 3]>>]>> \o _CHILDREN_RE_finditer(c, i + 4)
    ELSE IF i + 1 <= Len(c) /\ c[i + 1] # ""
    THEN <<[child_namespace |-> None,
            child_type      |-> <<c[i]>>,
            child_name      |-> <<c[i + 1]>>]>> \o _CHILDREN_RE_finditer(c, i + 2)
    ELSE _CHILDREN_RE_finditer(c, i + 1)

(* ---------------------------------------------------------------------- *)
(* parse_resource_id                                                       *)
(* ---------------------------------------------------------------------- *)
\* key + "_%d" % n, and "key_{}".format(v) for v an int or None
ChildKey(key, v) == key \o "_" \o (IF v = None THEN "None" ELSE ToString(v[1]))

\* the for loop with the two statements swapped: extend, then record
RECURSIVE ParentLoop_ExtendFirst(_, _, _, _)
ParentLoop_ExtendFirst(kw, parent_builder, index, last) ==
    IF index >= last THEN [kwargs |-> kw, parent_builder |-> parent_builder]
    ELSE
      LET child_namespace == Get(kw, ChildKey("child_namespace", PyInt(index)))
          pb1 == IF child_namespace # None
                 THEN Append(parent_builder, Join(Slash, <<<<"providers">>, child_namespace, EmptyStr>>))
                 ELSE parent_builder
          pb2 == Append(pb1, Join(Slash, <<Fmt(kw[ChildKey("child_type", PyInt(index))]),
                                           Fmt(kw[ChildKey("child_name", PyInt(index))]),
                                           EmptyStr>>))
          kw1 == Update(kw, ChildKey("child_parent", PyInt(index)) :> Join(EmptyStr, pb2))
      IN  ParentLoop_ExtendFirst(kw1, pb2, index + 1, last)

\* the body of _get_parents_from_parts' for loop, from index up to last - 1;
\* the state is the pair of kwargs and parent_builder
RECURSIVE ParentLoop(_, _, _, _)
ParentLoop(kw, parent_builder, index, last) ==
    IF index >= last THEN [kwargs |-> kw, parent_builder |-> parent_builder]
    ELSE
      LET child_namespace == Get(kw, ChildKey("child_namespace", PyInt(index)))
          pb1 == IF child_namespace # None
                 THEN Append(parent_builder, Join(Slash, <<<<"providers">>, child_namespace, EmptyStr>>))
                 ELSE parent_builder
          kw1 == Update(kw, ChildKey("child_parent", PyInt(index)) :> Join(EmptyStr, pb1))
          pb2 == Append(pb1, Join(Slash, <<Fmt(kw1[ChildKey("child_type", PyInt(index))]),
                                           Fmt(kw1[ChildKey("child_name", PyInt(index))]),
                                           EmptyStr>>))
      IN  ParentLoop(kw1, pb2, index + 1, last)

\* the last two statements of the `if` branch: the namespace of the last
\* child, then its child_parent
LastChild(kw, loop) ==
    LET child_namespace == Get(loop.kwargs, ChildKey("child_namespace", kw["last_child_num"]))
    IN  IF child_namespace # None
        THEN [kwargs |-> Update(loop.kwargs,
                                ChildKey("child_parent", kw["last_child_num"]) :>
                                  Join(EmptyStr, Append(loop.parent_builder,
                                         Join(Slash, <<<<"providers">>, child_namespace, EmptyStr>>)))),
              parent_builder |-> Append(loop.parent_builder,
                                        Join(Slash, <<<<"providers">>, child_namespace, EmptyStr>>))]
        ELSE [kwargs |-> Update(loop.kwargs,
                                ChildKey("child_parent", kw["last_child_num"]) :>
                                  Join(EmptyStr, loop.parent_builder)),
              parent_builder |-> loop.parent_builder]

\* kwargs["resource_parent"] = "".join(parent_builder) if kwargs["name"] else None
SetResourceParent(st) ==
    Update(st.kwargs,
           "resource_parent" :> (IF Truthy(st.kwargs["name"])
                                 THEN Join(EmptyStr, st.parent_builder)
                                 ELSE None))

\* _get_parents_from_parts seeding parent_builder with "{type}/{name}/" also
\* when there is no child
_get_parents_from_parts_RootSeed(kw) ==
    SetResourceParent(
      IF kw["last_child_num"] # None
      THEN LastChild(kw, ParentLoop(kw,
                                    <<Join(Slash, <<Fmt(kw["type"]), Fmt(kw["name"]), EmptyStr>>)>>,
                                    1, kw["last_child_num"][1]))
      ELSE [kwargs |-> kw,
            parent_builder |-> <<Join(Slash, <<Fmt(kw["type"]), Fmt(kw["name"]), EmptyStr>>)>>])

_get_parents_from_parts(kw) ==
    SetResourceParent(
      IF kw["last_child_num"] # None
      THEN LastChild(kw, ParentLoop(kw,
                                    <<Join(Slash, <<Fmt(kw["type"]), Fmt(kw["name"]), EmptyStr>>)>>,
                                    1, kw["last_child_num"][1]))
      ELSE [kwargs |-> kw, parent_builder |-> <<>>])

_populate_alternate_kwargs(kw) ==
    LET resource_namespace == kw["namespace"]
        ct == Get(kw, ChildKey("child_type", kw["last_child_num"]))
        cn == Get(kw, ChildKey("child_name", kw["last_child_num"]))
        resource_type == IF Truthy(ct) THEN ct ELSE kw["type"]
        resource_name == IF Truthy(cn) THEN cn ELSE kw["name"]
    IN  Update(Update(Update(_get_parents_from_parts(kw),
                             "resource_namespace" :> resource_namespace),
                      "resource_type" :> resource_type),
               "resource_name" :> resource_name)

\* for count, child in enumerate(children): result.update(...)
RECURSIVE UpdateChildren(_, _, _)
UpdateChildren(result, children, count) ==
    IF count >= Len(children) THEN result
    ELSE UpdateChildren(
           Update(result,
                  [k \in {ChildKey(key, PyInt(count + 1)) : key \in DOMAIN children[count + 1]} |->
                     LET key == CHOOSE j \in DOMAIN children[count + 1] :
                                   ChildKey(j, PyInt(count + 1)) = k
                     IN  children[count + 1][key]]),
           children, count + 1)

\* the matched branch with last_child_num = count, the zero-based index
ParseInput_CountFromZero(match) ==
    LET result   == match
        children == _CHILDREN_RE_finditer(
                       IF Truthy(result["children"]) THEN result["children"] ELSE EmptyStr, 2)
        count    == IF Len(children) = 0 THEN None ELSE PyInt(Len(children) - 1)
        result1  == UpdateChildren(result, children, 0)
    IN  Update(result1, "last_child_num" :> count)

\* result as handed to _populate_alternate_kwargs in the matched branch
ParseInput(match) ==
    LET result   == match
        children == _CHILDREN_RE_finditer(
                       IF Truthy(result["children"]) THEN result["children"] ELSE EmptyStr, 2)
        count    == IF Len(children) = 0 THEN None ELSE PyInt(Len(children) - 1)
        result1  == UpdateChildren(result, children, 0)
        result2  == Update(result1,
                           "last_child_num" :> (IF count # None THEN PyInt(count[1] + 1) ELSE None))
    IN  result2

\* the subscripted lookups kwargs[...] and the format(**kwargs) fields of
\* _populate_alternate_kwargs and _get_parents_from_parts that raise KeyError
\* when the key is missing
LookupKeys(kw) ==
    {"namespace", "type", "name", "last_child_num"}
      \cup (IF Get(kw, "last_child_num") # None
            THEN UNION {{ChildKey("child_type", PyInt(i)), ChildKey("child_name", PyInt(i))} :
                          i \in 1..(kw["last_child_num"][1] - 1)}
            ELSE {})

\* the matched branch from _populate_alternate_kwargs on
ParseFinish(result) ==
    IF LookupKeys(result) \subseteq DOMAIN result
    THEN [exc |-> "none", ret |-> DropNone(_populate_alternate_kwargs(result))]
    ELSE [exc |-> "KeyError", ret |-> EmptyDict]

\* the if/else on match
ParseBranch(x, match) ==
    IF match # None
    THEN ParseFinish(ParseInput(match))
    ELSE [exc |-> "none", ret |-> DropNone("name" :> x)]

\* parse_resource_id(rid): exc is the exception that escapes ("none" when it
\* returns), ret the returned mapping
parse_resource_id(x) ==
    IF x = EmptyStr THEN [exc |-> "none", ret |-> EmptyDict]
    ELSE ParseBranch(x, _ARMID_RE_match(x))

(* ---------------------------------------------------------------------- *)
(* resource_id                                                             *)
(* ---------------------------------------------------------------------- *)
\* the while True loop without the child namespace segment
RECURSIVE ChildLoop_NoNamespace(_, _, _)
ChildLoop_NoNamespace(kw, rid_builder, count) ==
    LET tyKey == ChildKey("child_type", PyInt(count))
        nmKey == ChildKey("child_name", PyInt(count))
    IN  IF tyKey \in DOMAIN kw /\ nmKey \in DOMAIN kw
        THEN ChildLoop_NoNamespace(
               kw, Append(rid_builder, Join(Slash, <<Fmt(kw[tyKey]), Fmt(kw[nmKey])>>)), count + 1)
        ELSE rid_builder

\* the while True loop of resource_id from level count on; it ends at the
\* first KeyError that is not caught inside the loop
RECURSIVE ChildLoop(_, _, _)
ChildLoop(kw, rid_builder, count) ==
    LET nsKey == ChildKey("child_namespace", PyInt(count))
        tyKey == ChildKey("child_type", PyInt(count))
        nmKey == ChildKey("child_name", PyInt(count))
        b1 == IF nsKey \in DOMAIN kw
              THEN Append(rid_builder, Join(Slash, <<<<"providers">>, Fmt(kw[nsKey])>>))
              ELSE rid_builder
    IN  IF tyKey \in DOMAIN kw /\ nmKey \in DOMAIN kw
        THEN ChildLoop(kw, Append(b1, Join(Slash, <<Fmt(kw[tyKey]), Fmt(kw[nmKey])>>)), count + 1)
        ELSE b1

\* the outer try appending "providers/{namespace}/{type}/{name}" in one
\* format call: all three or nothing
RootLoop_AllOrNothing(kw, rid_builder) ==
    LET b1 == IF "resource_group" \in DOMAIN kw
              THEN Append(rid_builder, Join(Slash, <<<<"resourceGroups">>, Fmt(kw["resource_group"])>>))
              ELSE rid_builder
    IN  IF {"namespace", "type", "name"} \subseteq DOMAIN kw
        THEN ChildLoop(kw, Append(b1, Join(Slash, <<<<"providers">>, Fmt(kw["namespace"]),
                                                    Fmt(kw["type"]), Fmt(kw["name"])>>)), 1)
        ELSE b1

\* the statements of resource_id inside the outer try
RootLoop(kw, rid_builder) ==
    LET b1 == IF "resource_group" \in DOMAIN kw
              THEN Append(rid_builder, Join(Slash, <<<<"resourceGroups">>, Fmt(kw["resource_group"])>>))
              ELSE rid_builder
    IN  IF "namespace" \notin DOMAIN kw THEN b1
        ELSE LET b2 == Append(b1, Join(Slash, <<<<"providers">>, Fmt(kw["namespace"])>>))
             IN  IF "type" \in DOMAIN kw /\ "name" \in DOMAIN kw
                 THEN ChildLoop(kw, Append(b2, Join(Slash, <<Fmt(kw["type"]), Fmt(kw["name"])>>)), 1)
                 ELSE b2

\* resource_id with the subscription segment formatted inside the try: a
\* missing subscription ends composition instead of raising
resource_id_SubscriptionInTry(kwargs0) ==
    LET kw == DropNone(kwargs0)
    IN  IF "subscription" \notin DOMAIN kw
        THEN [exc |-> "none", ret |-> Join(Slash, <<>>)]
        ELSE [exc |-> "none",
              ret |-> Join(Slash, RootLoop(kw, <<Cat(<<"", "subscriptions", "">>,
                                                     Fmt(kw["subscription"]))>>))]

\* resource_id returning the identifier in lower case
resource_id_Lowered(kwargs0) ==
    LET kw == DropNone(kwargs0)
    IN  IF "subscription" \notin DOMAIN kw
        THEN [exc |-> "KeyError", ret |-> None]
        ELSE [exc |-> "none",
              ret |-> Lower(Join(Slash, RootLoop(kw, <<Cat(<<"", "subscriptions", "">>,
                                                           Fmt(kw["subscription"]))>>)))]

\* resource_id(**kwargs): exc is the exception that escapes, ret the string
resource_id(kwargs0) ==
    LET kw == DropNone(kwargs0)
    IN  IF "subscription" \notin DOMAIN kw
        THEN [exc |-> "KeyError", ret |-> None]
        ELSE [exc |-> "none",
              ret |-> Join(Slash, RootLoop(kw, <<Cat(<<"", "subscriptions", "">>,
                                                     Fmt(kw["subscription"]))>>))]

(* ---------------------------------------------------------------------- *)
(* is_valid_resource_id                                                    *)
(* ---------------------------------------------------------------------- *)
\* resource_id(...).lower() == rid.lower() for the composed b
ValidCompare(x, b) ==
    IF b.exc # "none" THEN [exc |-> b.exc, ret |-> "unset"]
    ELSE [exc |-> "none", ret |-> IF Lower(b.ret) = Lower(x) THEN "True" ELSE "False"]

\* resource_id(**p) for the parsed p, then the comparison
ValidCompose(x, p) ==
    IF p.exc # "none" THEN [exc |-> p.exc, ret |-> "unset"]
    ELSE ValidCompare(x, resource_id(p.ret))

\* the value of `rid and resource_id(**parse_resource_id(rid)).lower() ==
\* rid.lower()`: "''" is rid itself when it is empty, "True"/"False" the
\* comparison; exc is what the expression raises
ValidExpr(x) ==
    IF x = EmptyStr THEN [exc |-> "none", ret |-> "''"]
    ELSE ValidCompose(x, parse_resource_id(x))

\* the statements after the try, without the except KeyError clause
ValidFinish_NoCatch(e, exc_type) ==
    IF e.exc # "none" THEN [exc |-> e.exc, ret |-> "unset"]
    ELSE IF e.ret # "True" /\ exc_type # "None"
    THEN [exc |-> exc_type, ret |-> "unset"]
    ELSE [exc |-> "none", ret |-> e.ret]

\* except KeyError: pass, then the statements after the try; e is the outcome
\* of the try body, exc_type is "None" or the name of an exception class
ValidFinish(e, exc_type) ==
    IF e.exc \notin {"none", "KeyError"} THEN [exc |-> e.exc, ret |-> "unset"]
    ELSE IF (e.exc = "KeyError" \/ e.ret # "True") /\ exc_type # "None"
    THEN [exc |-> exc_type, ret |-> "unset"]
    ELSE [exc |-> "none", ret |-> IF e.exc = "KeyError" THEN "False" ELSE e.ret]

\* is_valid_resource_id(rid, exception_type)
is_valid_resource_id(x, exc_type) == ValidFinish(ValidExpr(x), exc_type)

(* ---------------------------------------------------------------------- *)
(* Inputs                                                                  *)
(* ---------------------------------------------------------------------- *)
TailSegs == {"", "providers", "a", LFSeg}

Tails == UNION {[1..n -> TailSegs] : n \in 0..MaxTail}

Prefixes ==
    { <<"">>,
      <<"a">>,
      <<"", "subscriptions">>,
      <<"", LongSSeg>>,
      <<"", "SUBSCRIPTIONS", "S", "resourceGroups">>,
      <<"", "subscriptions", "s", "providers", "N", "t">>,
      <<"", "subscriptions", "s", "providers", "n", "t", "n">>,
      <<"", "subscriptions", "s", "RESOURCEGROUPS", "g", "PROVIDERS", "n", "", "n">>,
      <<"", "subscriptions", "s", "providers", "n", "t", "n", "PROVIDERS", "C", "ct", "c">> }

Inputs == {p \o t : p \in Prefixes, t \in Tails}

(* ---------------------------------------------------------------------- *)
(* Specification                                                           *)
(* ---------------------------------------------------------------------- *)
\* the keyword arguments a caller may hand to resource_id directly
FieldKeys ==
    {"subscription", "resource_group", "namespace", "type", "name", "extra"}
      \cup {ChildKey(b, PyInt(i)) : b \in {"child_namespace", "child_type", "child_name"},
                                    i \in 1..MaxLevel}

ValueOf(k) == <<"<" \o k \o ">">>

FieldMaps ==
    {[k \in P |-> IF k \in N THEN None ELSE ValueOf(k)] :
        P \in SUBSET FieldKeys, N \in SUBSET {"subscription", "namespace"}}

ExceptionTypes == {"None", "ValueError"}

Init ==
    /\ \/ pc = "start" /\ rid \in Inputs /\ kwargs = EmptyDict
       \/ pc = "fields" /\ rid = EmptyStr /\ kwargs \in FieldMaps
    /\ parsed = EmptyDict
    /\ built = None
    /\ reparsed = EmptyDict
    /\ is_valid = "unset"
    /\ exception_type = "None"
    /\ raised = "none"

\* parse_resource_id(rid)
ParseResourceId ==
    /\ pc = "start"
    /\ LET r == parse_resource_id(rid)
       IN  parsed' = r.ret /\ raised' = r.exc
    /\ pc' = "parsed"
    /\ UNCHANGED <<rid, kwargs, built, reparsed, is_valid, exception_type>>

\* resource_id(**parsed)
RoundTripBuild ==
    /\ pc = "parsed"
    /\ raised = "none"
    /\ kwargs' = parsed
    /\ LET r == resource_id(parsed)
       IN  built' = r.ret /\ raised' = r.exc
    /\ pc' = "built"
    /\ UNCHANGED <<rid, parsed, reparsed, is_valid, exception_type>>

\* parse_resource_id(built)
RoundTripParse ==
    /\ pc = "built"
    /\ raised = "none"
    /\ LET r == parse_resource_id(built)
       IN  reparsed' = r.ret /\ raised' = r.exc
    /\ pc' = "reparsed"
    /\ UNCHANGED <<rid, kwargs, parsed, built, is_valid, exception_type>>

\* resource_id(**kwargs) on a hand-made mapping
ResourceId ==
    /\ pc = "fields"
    /\ LET r == resource_id(kwargs)
       IN  built' = r.ret /\ raised' = r.exc
    /\ pc' = "composed"
    /\ UNCHANGED <<rid, kwargs, parsed, reparsed, is_valid, exception_type>>

\* is_valid_resource_id(rid, exception_type)
IsValidResourceId ==
    /\ pc = "start"
    /\ \E e \in ExceptionTypes :
          /\ exception_type' = e
          /\ LET r == is_valid_resource_id(rid, e)
             IN  is_valid' = r.ret /\ raised' = r.exc
    /\ pc' = "validated"
    /\ UNCHANGED <<rid, kwargs, parsed, built, reparsed>>

Next ==
    \/ ParseResourceId
    \/ RoundTripBuild
    \/ RoundTripParse
    \/ ResourceId
    \/ IsValidResourceId

Spec == Init /\ [][Next]_vars

(* ---------------------------------------------------------------------- *)
(* Properties                                                              *)
(* ---------------------------------------------------------------------- *)
\* the root pattern matches x (parse takes the matched branch)
RootMatches(x) == _ARMID_RE_match(x) # None

\* last_child_num of a parse result as a number, 0 when the key is omitted
NumChildren(d) == IF "last_child_num" \in DOMAIN d THEN d["last_child_num"][1] ELSE 0

\* x[i..] is a chain of child segments [/providers/{ns}]/{type}/{name} with
\* nothing left over, the keyword in ASCII letters of either case
RECURSIVE ChildChain(_, _)
ChildChain(x, i) ==
    \/ i = Len(x) + 1
    \/ /\ i + 1 <= Len(x)
       /\ x[i + 1] # ""
       /\ ChildChain(x, i + 2)
    \/ /\ i + 3 <= Len(x)
       /\ LowerSeg(x[i]) = "providers"
       /\ x[i + 1] # ""
       /\ x[i + 3] # ""
       /\ ChildChain(x, i + 4)

\* x is exactly /subscriptions/{s}[/resourceGroups/{g}][/providers/{ns}/{t}/{n}
\* and a chain of child segments], keywords in ASCII letters of either case,
\* no line break after the root name
WellFormed(x) ==
    /\ Len(x) >= 3
    /\ x[1] = ""
    /\ LowerSeg(x[2]) = "subscriptions"
    /\ x[3] # ""
    /\ \E p \in {4, 6} :
          /\ p = 6 => (Len(x) >= 5 /\ LowerSeg(x[4]) = "resourcegroups" /\ x[5] # "")
          /\ \/ Len(x) = p - 1
             \/ /\ Len(x) >= p + 3
                /\ LowerSeg(x[p]) = "providers"
                /\ x[p + 1] # ""
                /\ x[p + 3] # ""
                /\ ChildChain(x, p + 4)
                /\ \A i \in (p + 4)..Len(x) : ~HasLF(x[i])

\* C1 as stated: whenever the root pattern matches x, resource_id applied to
\* parse_resource_id(x) returns x up to letter case.
C1_RoundTripEveryMatch ==
    (pc = "built" /\ RootMatches(rid)) =>
        (raised = "none" /\ Lower(built) = Lower(rid))

\* C1 amended: for every well-formed x (the whole of x is the root and a
\* chain of child segments, ASCII keywords, no line break in the child part)
\* resource_id applied to parse_resource_id(x) returns x up to letter case.
C1_RoundTripWellFormed ==
    (pc = "built" /\ WellFormed(rid)) =>
        (raised = "none" /\ Lower(built) = Lower(rid))

C1_Witness ==
    /\ pc = "built"
    /\ WellFormed(rid)
    /\ NumChildren(parsed) = 2
    /\ "child_namespace_1" \in DOMAIN parsed
    /\ built # rid
    /\ Lower(built) = Lower(rid)

\* C2: is_valid_resource_id without an exception_type never raises and is
\* true exactly when x is non-empty and the round trip returns x up to case
\* (false also when composition raises KeyError); with an exception_type it
\* raises that type exactly when the result would be false.
C2_ValidatorContract ==
    pc = "validated" =>
        LET b == resource_id(parse_resource_id(rid).ret)
            roundTrips == rid # EmptyStr /\ b.exc = "none" /\ Lower(b.ret) = Lower(rid)
        IN  /\ exception_type = "None" =>
                /\ raised = "none"
                /\ is_valid \in {"True", "False", "''"}
                /\ (is_valid = "True") <=> roundTrips
            /\ exception_type # "None" =>
                /\ raised \in {"none", exception_type}
                /\ (raised = exception_type) <=> ~roundTrips
                /\ raised = "none" => is_valid = "True"

C2_Witness ==
    /\ pc = "validated"
    /\ exception_type = "None"
    /\ rid # EmptyStr
    /\ ~RootMatches(rid)
    /\ is_valid = "False"
    /\ raised = "none"

\* C3: parse_resource_id never raises; the empty string gives the empty
\* mapping and a non-empty string the root pattern does not match gives
\* exactly {name: x}.
C3_ParseFallback ==
    pc = "parsed" =>
        /\ raised = "none"
        /\ rid = EmptyStr => parsed = EmptyDict
        /\ (rid # EmptyStr /\ ~( /\ Len(rid) >= 3
                                /\ rid[1] = ""
                                /\ FoldSeg(rid[2]) = "subscriptions"
                                /\ rid[3] # "" )) =>
              (DOMAIN parsed = {"name"} /\ parsed["name"] = rid)

C3_Witness ==
    /\ pc = "parsed"
    /\ Len(rid) = 3
    /\ rid[1] = ""
    /\ rid[2] = "subscriptions"
    /\ rid[3] = ""
    /\ DOMAIN parsed = {"name"}

\* the mapping handed to the last resource_id call holds a subscription
HasSubscription == "subscription" \in DOMAIN kwargs /\ kwargs["subscription"] # None

\* C4: resource_id raises KeyError exactly when subscription is absent from
\* (or None in) its keyword arguments, whatever else they hold; otherwise it
\* returns a string.
C4_BuildFailsIffNoSubscription ==
    pc \in {"composed", "built"} =>
        /\ raised \in {"none", "KeyError"}
        /\ (raised = "KeyError") <=> ~HasSubscription
        /\ raised = "none" => (built # None /\ Len(built) >= 3)

C4_Witness ==
    /\ pc = "composed"
    /\ DOMAIN kwargs = {"subscription", "child_name_2", "extra"}
    /\ raised = "none"

\* kwargs holds key k with a value
Has(k) == k \in DOMAIN kwargs /\ kwargs[k] # None

\* "/subscriptions/{subscription}" and the optional resource group
BasePath ==
    IF Has("resource_group")
    THEN <<"", "subscriptions", kwargs["subscription"][1],
           "resourceGroups", kwargs["resource_group"][1]>>
    ELSE <<"", "subscriptions", kwargs["subscription"][1]>>

\* C5 as stated: when namespace, type or name is absent the result is
\* exactly the subscription and the optional resource group.
C5_RootAppendedWhole ==
    (pc = "composed" /\ raised = "none"
       /\ ~(Has("namespace") /\ Has("type") /\ Has("name"))) =>
        built = BasePath

\* child levels 1..n of kwargs are complete (type and name present)
LevelsComplete(n) ==
    \A i \in 1..n : Has(ChildKey("child_type", PyInt(i))) /\ Has(ChildKey("child_name", PyInt(i)))

\* the number of leading complete child levels
Depth == CHOOSE n \in 0..(MaxLevel + 1) :
            LevelsComplete(n) /\ (n = MaxLevel + 1 \/ ~LevelsComplete(n + 1))

\* the segments child level i contributes when it is complete
LevelPath(i) ==
    (IF Has(ChildKey("child_namespace", PyInt(i)))
     THEN <<"providers", kwargs[ChildKey("child_namespace", PyInt(i))][1]>> ELSE <<>>)
      \o <<kwargs[ChildKey("child_type", PyInt(i))][1],
           kwargs[ChildKey("child_name", PyInt(i))][1]>>

RECURSIVE LevelsPath(_)
LevelsPath(n) == IF n = 0 THEN <<>> ELSE LevelsPath(n - 1) \o LevelPath(n)

\* C5 amended: with namespace absent the result is the subscription and the
\* optional resource group; with namespace present "/providers/{namespace}"
\* is appended, and "/{type}/{name}" only when both are present; child level
\* i then contributes "/{child_type_i}/{child_name_i}" (after its optional
\* "/providers/{child_namespace_i}") only when both are present and every
\* lower level was complete; composition stops at the first incomplete
\* level, whose child_namespace, when present, still contributes a trailing
\* "/providers/{child_namespace}".
C5_BuildLeftToRight ==
    (pc = "composed" /\ raised = "none") =>
        built =
          IF ~Has("namespace") THEN BasePath
          ELSE IF ~(Has("type") /\ Has("name"))
          THEN BasePath \o <<"providers", kwargs["namespace"][1]>>
          ELSE BasePath
                 \o <<"providers", kwargs["namespace"][1], kwargs["type"][1], kwargs["name"][1]>>
                 \o LevelsPath(Depth)
                 \o (IF Has(ChildKey("child_namespace", PyInt(Depth + 1)))
                     THEN <<"providers", kwargs[ChildKey("child_namespace", PyInt(Depth + 1))][1]>>
                     ELSE <<>>)

C5_Witness ==
    /\ pc = "composed"
    /\ raised = "none"
    /\ Has("namespace") /\ Has("type") /\ Has("name")
    /\ Depth = 1
    /\ Has("child_namespace_2")
    /\ Has("child_type_2")
    /\ ~Has("child_name_2")

\* "{type}/{name}/" of a parse result
RootParent(d) == <<d["type"][1], d["name"][1], "">>

\* C6 as stated: a result with no child segments has resource_parent =
\* "{type}/{name}/" when the root name is present and no resource_parent
\* otherwise.
C6_NoChildParentIsRoot ==
    (pc = "parsed" /\ RootMatches(rid) /\ NumChildren(parsed) = 0) =>
        IF "name" \in DOMAIN parsed
        THEN "resource_parent" \in DOMAIN parsed
               /\ parsed["resource_parent"] = RootParent(parsed)
        ELSE "resource_parent" \notin DOMAIN parsed

\* C6 amended: a result with no child segments has resource_parent = "" (the
\* empty string) when the root name is present and no resource_parent
\* otherwise.
C6_NoChildParentIsEmpty ==
    (pc = "parsed" /\ RootMatches(rid) /\ NumChildren(parsed) = 0) =>
        IF "name" \in DOMAIN parsed
        THEN "resource_parent" \in DOMAIN parsed
               /\ parsed["resource_parent"] = EmptyStr
        ELSE "resource_parent" \notin DOMAIN parsed

C6_Witness ==
    /\ pc = "parsed"
    /\ RootMatches(rid)
    /\ NumChildren(parsed) = 0
    /\ "name" \in DOMAIN parsed
    /\ parsed["resource_parent"] = EmptyStr
    /\ parsed["type"] = <<"t">>

\* "providers/{child_namespace_i}/" of a parse result, empty without namespace
NsPart(d, i) ==
    IF ChildKey("child_namespace", PyInt(i)) \in DOMAIN d
    THEN <<"providers", d[ChildKey("child_namespace", PyInt(i))][1]>>
    ELSE <<>>

\* the segments of levels 1..i-1 with their namespaces, then namespace i
RECURSIVE Above(_, _)
Above(d, i) ==
    IF i = 1 THEN NsPart(d, 1)
    ELSE Above(d, i - 1)
           \o <<d[ChildKey("child_type", PyInt(i - 1))][1],
                d[ChildKey("child_name", PyInt(i - 1))][1]>>
           \o NsPart(d, i)

\* C7: with n >= 1 child segments, child_parent_i is "{type}/{name}/", then
\* for every j < i the optional "providers/{child_namespace_j}/" and
\* "{child_type_j}/{child_name_j}/", then "providers/{child_namespace_i}/" if
\* child i has a namespace; resource_parent is child_parent_n.
C7_ChildParents ==
    (pc = "parsed" /\ RootMatches(rid) /\ NumChildren(parsed) >= 1) =>
        /\ \A i \in 1..NumChildren(parsed) :
              /\ ChildKey("child_parent", PyInt(i)) \in DOMAIN parsed
              /\ parsed[ChildKey("child_parent", PyInt(i))]
                   = <<parsed["type"][1], parsed["name"][1]>> \o Above(parsed, i) \o <<"">>
        /\ "resource_parent" \in DOMAIN parsed
        /\ parsed["resource_parent"]
             = parsed[ChildKey("child_parent", parsed["last_child_num"])]

C7_Witness ==
    /\ pc = "parsed"
    /\ NumChildren(parsed) = 2
    /\ "child_namespace_1" \in DOMAIN parsed
    /\ "child_namespace_2" \in DOMAIN parsed
    /\ parsed["child_parent_1"] = <<"t", "n", "providers", "C", "">>
    /\ parsed["child_parent_2"] = <<"t", "n", "providers", "C", "ct", "c", "providers", "a", "">>

\* C8: with child segments resource_type and resource_name are the type and
\* name of the last child (also when that type is the empty string), without
\* them the root type and name; resource_namespace is the root namespace.
C8_DerivedFields ==
    (pc = "parsed" /\ RootMatches(rid)) =>
        /\ Get(parsed, "resource_namespace") = Get(parsed, "namespace")
        /\ IF NumChildren(parsed) >= 1
           THEN /\ Get(parsed, "resource_type")
                     = Get(parsed, ChildKey("child_type", parsed["last_child_num"]))
                /\ Get(parsed, "resource_name")
                     = Get(parsed, ChildKey("child_name", parsed["last_child_num"]))
           ELSE /\ Get(parsed, "resource_type") = Get(parsed, "type")
                /\ Get(parsed, "resource_name") = Get(parsed, "name")

\* C9 as stated: whenever the root pattern matches x, parsing the rebuilt
\* identifier gives the same mapping as parsing x.
C9_IdempotentEveryMatch ==
    (pc = "reparsed" /\ RootMatches(rid)) => reparsed = parsed

\* C9 amended: for every x that round-trips up to letter case (the condition
\* is_valid_resource_id tests), parsing the rebuilt identifier gives the same
\* mapping as parsing x on every key but children, and children values equal
\* up to letter case.
C9_IdempotentOnValid ==
    (pc = "reparsed" /\ Lower(built) = Lower(rid)) =>
        /\ DOMAIN reparsed = DOMAIN parsed
        /\ \A k \in DOMAIN parsed \ {"children"} : reparsed[k] = parsed[k]
        /\ "children" \in DOMAIN parsed =>
              Lower(reparsed["children"]) = Lower(parsed["children"])

C9_Witness ==
    /\ pc = "reparsed"
    /\ Lower(built) = Lower(rid)
    /\ built # rid
    /\ NumChildren(parsed) = 2
    /\ reparsed["children"] # parsed["children"]
    /\ parsed["subscription"] = <<"s">>

\* the keys a parse result with n child segments may hold
ResultKeys(n) ==
    {"subscription", "resource_group", "namespace", "type", "name", "children",
     "last_child_num", "resource_parent", "resource_namespace", "resource_type",
     "resource_name"}
      \cup {ChildKey(b, PyInt(i)) :
              b \in {"child_namespace", "child_type", "child_name", "child_parent"},
              i \in 1..n}

\* the child-pattern matches in the remainder of x
Matches(d) ==
    _CHILDREN_RE_finditer(IF "children" \in DOMAIN d THEN d["children"] ELSE EmptyStr, 2)

\* C10: no key of a parse result carries None; last_child_num is omitted or
\* the number (at least 1) of child matches in the remainder; child_type_i,
\* child_name_i and child_parent_i are present exactly for i in
\* 1..last_child_num, child_namespace_i exactly for those of them whose
\* match had a "/providers/{ns}" prefix, and no other numbered key exists.
C10_ResultShape ==
    (pc = "parsed" /\ RootMatches(rid)) =>
        /\ \A k \in DOMAIN parsed : parsed[k] # None
        /\ "last_child_num" \in DOMAIN parsed => parsed["last_child_num"][1] >= 1
        /\ NumChildren(parsed) = Len(Matches(parsed))
        /\ DOMAIN parsed \subseteq ResultKeys(NumChildren(parsed))
        /\ \A i \in 1..NumChildren(parsed) :
              /\ ChildKey("child_type", PyInt(i)) \in DOMAIN parsed
              /\ ChildKey("child_name", PyInt(i)) \in DOMAIN parsed
              /\ ChildKey("child_parent", PyInt(i)) \in DOMAIN parsed
              /\ (ChildKey("child_namespace", PyInt(i)) \in DOMAIN parsed)
                    <=> (Matches(parsed)[i].child_namespace # None)

C10_Witness ==
    /\ pc = "parsed"
    /\ NumChildren(parsed) = 3
    /\ "child_namespace_1" \in DOMAIN parsed
    /\ "child_namespace_2" \notin DOMAIN parsed
    /\ "child_namespace_3" \notin DOMAIN parsed
    /\ parsed["child_type_3"] = <<"">>

====
